---- MODULE Spec2Model ----
(***************************************************************************)
(* Model of server/server.js: an Express server that keeps point           *)
(* annotations in one Redis hash (field = annotation id, value = JSON      *)
(* text) and forwards change events to an optional Lightcable WebSocket.   *)
(*                                                                         *)
(* Every async route handler is split at its awaits: the synchronous part  *)
(* up to the first Redis call, the execution of the command by Redis, and  *)
(* the continuation that runs when the reply is delivered.                 *)
(***************************************************************************)
EXTENDS Integers, Sequences, FiniteSets, TLC

(***************************************************************************)
(* Bounds of the model.                                                    *)
(***************************************************************************)
\* Number of requests the callers start in one behaviour.
MaxOps == 2
\* Largest value Date.now() reaches.
MaxClock == 1

\* The HTTP callers; each has at most one request in flight.
Callers == {"c1", "c2"}

(***************************************************************************)
(* JavaScript values.  Every value is a record of the same shape so that   *)
(* any two can be compared: t is the type tag, n the number (or 0/1 for a  *)
(* boolean), s the string, a the array elements.                           *)
(***************************************************************************)
Undef == [t |-> "undefined", n |-> 0, s |-> "", a |-> <<>>]
Null == [t |-> "null", n |-> 0, s |-> "", a |-> <<>>]
Num(k) == [t |-> "number", n |-> k, s |-> "", a |-> <<>>]
Str(x) == [t |-> "string", n |-> 0, s |-> x, a |-> <<>>]
Arr(xs) == [t |-> "array", n |-> 0, s |-> "", a |-> xs]
Bool(b) == [t |-> "boolean", n |-> IF b THEN 1 ELSE 0, s |-> "", a |-> <<>>]

\* JavaScript truthiness, as used by !id, clientId || null, !!existingRaw.
Truthy(v) ==
    CASE v.t = "undefined" -> FALSE
      [] v.t = "null" -> FALSE
      [] v.t = "number" -> v.n # 0
      [] v.t = "boolean" -> v.n = 1
      [] v.t = "string" -> v.s # ""
      [] OTHER -> TRUE

\* Array.isArray(v)
IsArray(v) == v.t = "array"

\* v.length of an array
Length(v) == Len(v.a)

\* a || b
OrElse(a, b) == IF Truthy(a) THEN a ELSE b

(***************************************************************************)
(* Objects: the property names the handlers use.  A property that is       *)
(* absent holds Undef (JSON.stringify skips both alike).                   *)
(***************************************************************************)
Keys == <<"id", "lngLat", "updatedAt", "clientId", "existed", "removed", "error", "type">>
KeySet == {Keys[i] : i \in 1..Len(Keys)}
EmptyObj == [k \in KeySet |-> Undef]

\* { ...base, ...over }: the properties of over replace those of base.
Spread(base, over) ==
    [k \in KeySet |-> IF over[k] # Undef THEN over[k] ELSE base[k]]

\* { id }
IdObj(id) == [EmptyObj EXCEPT !["id"] = id]

(***************************************************************************)
(* JSON text is a sequence of tokens (the separators ':' and ',' are left  *)
(* out).  JSON.stringify writes the properties in insertion order, which   *)
(* for every object built here is the order of Keys.                       *)
(***************************************************************************)
Quote(x) == "\"" \o x \o "\""

\* The strings that can occur as string values or property names.
KnownStrings == KeySet \cup {"", "a", "b", "k1", "add", "update", "remove", "internal"}
NumRange == 0..9

RECURSIVE NumToks(_)
NumToks(xs) ==
    IF xs = <<>> THEN <<>> ELSE <<ToString(Head(xs))>> \o NumToks(Tail(xs))

ValueToks(v) ==
    CASE v.t = "null" -> <<"null">>
      [] v.t = "number" -> <<ToString(v.n)>>
      [] v.t = "boolean" -> <<IF v.n = 1 THEN "true" ELSE "false">>
      [] v.t = "string" -> <<Quote(v.s)>>
      [] v.t = "array" -> <<"[">> \o NumToks(v.a) \o <<"]">>
      [] OTHER -> <<>>

RECURSIVE FieldToks(_, _)
FieldToks(obj, i) ==
    IF i > Len(Keys) THEN <<>>
    ELSE (IF obj[Keys[i]] = Undef THEN <<>>
          ELSE <<Quote(Keys[i])>> \o ValueToks(obj[Keys[i]]))
         \o FieldToks(obj, i + 1)

\* JSON.stringify(obj)
Stringify(obj) == <<"{">> \o FieldToks(obj, 1) \o <<"}">>

\* The tokens of the numbers and of the strings, and what each one denotes.
NumTokens == {ToString(k) : k \in NumRange}
StrTokens == {Quote(x) : x \in KnownStrings}
NumberOf == [tok \in NumTokens |-> CHOOSE k \in NumRange : ToString(k) = tok]
StringOf == [tok \in StrTokens |-> CHOOSE x \in KnownStrings : Quote(x) = tok]

IsNumTok(tok) == tok \in NumTokens
NumOfTok(tok) == NumberOf[tok]
IsStrTok(tok) == tok \in StrTokens
StrOfTok(tok) == StringOf[tok]

\* The elements of an array whose '[' is at toks[i - 1]: the number tokens
\* from i on, up to the first token that is not a number.
RECURSIVE ParseElems(_, _)
ParseElems(toks, i) ==
    IF i <= Len(toks) /\ IsNumTok(toks[i])
    THEN <<NumOfTok(toks[i])>> \o ParseElems(toks, i + 1)
    ELSE <<>>

\* One JSON value starting at toks[i]: [ok, val, next].
ParseValue(toks, i) ==
    IF i > Len(toks) THEN [ok |-> FALSE, val |-> Undef, next |-> i]
    ELSE LET tok == toks[i] IN
         CASE tok = "null" -> [ok |-> TRUE, val |-> Null, next |-> i + 1]
           [] tok = "true" -> [ok |-> TRUE, val |-> Bool(TRUE), next |-> i + 1]
           [] tok = "false" -> [ok |-> TRUE, val |-> Bool(FALSE), next |-> i + 1]
           [] IsNumTok(tok) -> [ok |-> TRUE, val |-> Num(NumOfTok(tok)), next |-> i + 1]
           [] IsStrTok(tok) -> [ok |-> TRUE, val |-> Str(StrOfTok(tok)), next |-> i + 1]
           [] tok = "[" ->
                LET xs == ParseElems(toks, i + 1)
                    j == i + 1 + Len(xs)
                IN IF j <= Len(toks) /\ toks[j] = "]"
                   THEN [ok |-> TRUE, val |-> Arr(xs), next |-> j + 1]
                   ELSE [ok |-> FALSE, val |-> Undef, next |-> i]
           [] OTHER -> [ok |-> FALSE, val |-> Undef, next |-> i]

\* The properties of an object whose '{' is at toks[1], from toks[i] on.
RECURSIVE ParseFields(_, _, _)
ParseFields(toks, i, acc) ==
    IF i > Len(toks) THEN [ok |-> FALSE, obj |-> EmptyObj]
    ELSE IF toks[i] = "}"
    THEN [ok |-> i = Len(toks), obj |-> acc]
    ELSE IF ~(IsStrTok(toks[i]) /\ StrOfTok(toks[i]) \in KeySet)
    THEN [ok |-> FALSE, obj |-> EmptyObj]
    ELSE LET v == ParseValue(toks, i + 1) IN
         IF ~v.ok THEN [ok |-> FALSE, obj |-> EmptyObj]
         ELSE ParseFields(toks, v.next, [acc EXCEPT ![StrOfTok(toks[i])] = v.val])

\* JSON.parse(text): ok is FALSE when it throws.  isObj tells a parsed object
\* from a parsed scalar or array; obj holds the own properties that a spread
\* of the parsed value copies (none for a number, null or a boolean).
JsonParse(text) ==
    IF text = <<>> THEN [ok |-> FALSE, isObj |-> FALSE, obj |-> EmptyObj]
    ELSE IF text[1] = "{"
    THEN LET r == ParseFields(text, 2, EmptyObj)
         IN [ok |-> r.ok, isObj |-> r.ok, obj |-> r.obj]
    ELSE LET v == ParseValue(text, 1)
         IN [ok |-> v.ok /\ v.next = Len(text) + 1, isObj |-> FALSE, obj |-> EmptyObj]

(***************************************************************************)
(* The Redis hash REDIS_ANNOTATIONS_KEY: a function from the fields that   *)
(* exist to their values (JSON text).                                      *)
(***************************************************************************)
\* The non-empty annotation ids used; "" is the empty id.
Ids == {"a", "b"}
FieldOrder == <<"a", "b">>

\* HSETNX in place of HSET: an existing field keeps its value.
HSetNX(h, f, v) == [k \in DOMAIN h \cup {f} |-> IF k \in DOMAIN h THEN h[k] ELSE v]

\* A write that yields to a value written since startup: the first writer wins.
HSetFirstWriter(h, f, v) ==
    IF f \in DOMAIN h /\ h[f] # <<"{", "\"lngLat\"", "[", "7", "8", "]", "\"updatedAt\"", "0",
                                  "\"clientId\"", "null", "}">>
    THEN h
    ELSE [k \in DOMAIN h \cup {f} |-> IF k = f THEN v ELSE h[k]]

\* HSET key field value
HSet(h, f, v) == [k \in DOMAIN h \cup {f} |-> IF k = f THEN v ELSE h[k]]

\* A delete that removes nothing.
HDelKeep(h, f) == h

\* HDEL key field
HDel(h, f) == [k \in DOMAIN h \ {f} |-> h[k]]

\* The reply of HDEL: the number of fields removed.
HDelCount(h, f) == IF f \in DOMAIN h THEN 1 ELSE 0

EmptyHash == [k \in {} |-> <<>>]

(***************************************************************************)
(* Request bodies the callers send.                                        *)
(***************************************************************************)
\* The requests POST /annotations with body { id, lngLat, clientId }.  Two
\* are valid; the others miss the id, have an empty id, miss lngLat, have a
\* lngLat that is no array, or one that is too short.
Request(id, lngLat, clientId) == [id |-> id, lngLat |-> lngLat, clientId |-> clientId]
PostRequests ==
    { Request(Str("a"), Arr(<<1, 2>>), Undef),
      Request(Str("b"), Arr(<<3, 4, 5>>), Str("k1")),
      Request(Undef, Arr(<<1, 2>>), Undef),
      Request(Str(""), Arr(<<1, 2>>), Undef),
      Request(Str("a"), Undef, Undef),
      Request(Str("a"), Str("ab"), Undef),
      Request(Str("a"), Arr(<<1>>), Undef) }

\* The requests PUT /annotations/<id> with body { lngLat, clientId }
PutRequests ==
    { Request("a", Arr(<<1, 2>>), Undef),
      Request("a", Arr(<<3, 4, 5>>), Str("k1")),
      Request("a", Str("ab"), Undef),
      Request("a", Arr(<<1>>), Undef) }

\* A record written by an earlier run of the server (Redis persists the hash).
OldRecord ==
    [EmptyObj EXCEPT !["lngLat"] = Arr(<<7, 8>>), !["updatedAt"] = Num(0),
                     !["clientId"] = Null]

VARIABLES
    store,      \* the Redis hash
    now,        \* Date.now()
    pc,         \* per caller: where its request stands
    req,        \* per caller: the request in flight or last answered
    loc,        \* per caller: the handler's locals (obj, existingRaw)
    res,        \* per caller: the response sent (status, body)
    prev,       \* per caller: the request and response before the current one
    cmdq,       \* Redis commands sent on the shared connection, not yet executed
    replyq,     \* Redis replies not yet delivered to the awaiting handlers
    url,        \* LIGHTCABLE_WS_URL is set
    lcws,       \* the global lcws: "null" or the socket's readyState
    timers,     \* pending setTimeout(connectLightcable, 2000) callbacks
    wire,       \* frames handed to lcws.send that were sent
    notified,   \* calls of broadcastToLightcable, in order, with their outcome
    ops,        \* requests started so far
    landed,     \* per id: the write or delete that Redis executed last
    freed,      \* per id: a delete has returned 200 and no write was executed since
    asked       \* the requests (by number) that sent a command to Redis

vars == <<store, now, pc, req, loc, res, prev, cmdq, replyq, url, lcws, timers,
          wire, notified, ops, landed, freed, asked>>

storeVars == <<store, cmdq, replyq, landed, freed, asked>>
callVars == <<pc, req, loc, res, prev, ops>>
fwdVars == <<url, lcws, timers>>
logVars == <<wire, notified>>

NoReq == [op |-> "none", id |-> Undef, lngLat |-> Undef, clientId |-> Undef, no |-> 0]
\* obj: the record built for the write.  existingRaw: the reply of hGet
\* (present is FALSE for null).  err: a Redis call of this request rejected.
\* had, seen: what Redis held when it executed this request's last command
\* (the field existed; the last write or delete of each id).  hadRead: the
\* field existed when Redis executed this request's hGet.
\* landed[id]: the op, request number and position of the last write or
\* delete Redis executed on id, the op executed before it, the updatedAt of
\* the last value written to id (0 when none was), and the request numbers of
\* all writes and deletes executed on id, in the order of execution.
NoLanded == [op |-> "none", no |-> 0, lngLat |-> Undef, after |-> "none",
             at |-> 0, seq |-> <<>>]
NoLoc == [obj |-> EmptyObj, present |-> FALSE, existingRaw |-> <<>>, err |-> FALSE,
          hadRead |-> FALSE, had |-> FALSE, seen |-> [i \in Ids |-> NoLanded]]
NoRes == [status |-> 0, body |-> EmptyObj, list |-> <<>>]
NoPrev == [req |-> NoReq, res |-> NoRes]

(***************************************************************************)
(* Initial state: the process has started, redis.connect() has resolved    *)
(* and, when LIGHTCABLE_WS_URL is set, connectLightcable() has run once.   *)
(* API_KEY is unset (its default), so requireApiKey passes every request.  *)
(* The hash holds one record, of id "a", from an earlier run; id "b" is    *)
(* free.                                                                   *)
(***************************************************************************)
InitCalls ==
    /\ pc = [c \in Callers |-> "idle"]
    /\ req = [c \in Callers |-> NoReq]
    /\ loc = [c \in Callers |-> NoLoc]
    /\ res = [c \in Callers |-> NoRes]
    /\ prev = [c \in Callers |-> NoPrev]
    /\ ops = 0

\* A startup that connects whether or not LIGHTCABLE_WS_URL is set.
InitForwarderEager ==
    /\ url \in BOOLEAN
    /\ lcws = "CONNECTING"
    /\ timers = 0
    /\ wire = <<>>
    /\ notified = <<>>

InitForwarder ==
    /\ url \in BOOLEAN
    /\ lcws = IF url THEN "CONNECTING" ELSE "null"
    /\ timers = 0
    /\ wire = <<>>
    /\ notified = <<>>

Init ==
    /\ store = HSet(EmptyHash, "a", Stringify(OldRecord))
    /\ now = 0
    /\ cmdq = <<>>
    /\ replyq = <<>>
    /\ landed = [i \in Ids |-> NoLanded]
    /\ freed = [i \in Ids |-> FALSE]
    /\ asked = {}
    /\ InitCalls
    /\ InitForwarder

(***************************************************************************)
(* Broadcast Forwarder.                                                    *)
(***************************************************************************)
\* connectLightcable(): the value of lcws after the call.
ConnectLightcable == IF ~url THEN lcws ELSE "CONNECTING"

\* An open handler that also sends the events skipped while not connected.
WsOpenFlush ==
    /\ lcws = "CONNECTING"
    /\ lcws' = "OPEN"
    /\ wire' = wire \o [j \in 1..Len(SelectSeq(notified, LAMBDA e : e.outcome = "skipped")) |->
                           LET e == SelectSeq(notified, LAMBDA x : x.outcome = "skipped")[j]
                           IN [no |-> e.no, text |-> Stringify(e.evt)]]
    /\ UNCHANGED <<url, timers, notified, storeVars, callVars, now>>

\* lcws.on('open'): the handler only logs; the socket is OPEN from now on.
WsOpen ==
    /\ lcws = "CONNECTING"
    /\ lcws' = "OPEN"
    /\ UNCHANGED <<url, timers, logVars, storeVars, callVars, now>>

\* lcws.on('error'): the handler only logs; ws closes the socket afterwards.
WsError ==
    /\ lcws \in {"CONNECTING", "OPEN"}
    /\ lcws' = "CLOSING"
    /\ UNCHANGED <<url, timers, logVars, storeVars, callVars, now>>

\* A close handler that clears lcws but does not arm the timer.
WsCloseNoRetry ==
    /\ lcws \in {"CONNECTING", "OPEN", "CLOSING"}
    /\ lcws' = "null"
    /\ UNCHANGED <<url, timers, logVars, storeVars, callVars, now>>

\* lcws.on('close'): lcws = null; setTimeout(connectLightcable, 2000).
WsClose ==
    /\ lcws \in {"CONNECTING", "OPEN", "CLOSING"}
    /\ lcws' = "null"
    /\ timers' = timers + 1
    /\ UNCHANGED <<url, logVars, storeVars, callVars, now>>

\* A timer callback that is not consumed by firing (setInterval in place of
\* setTimeout).
TimerFireRepeats ==
    /\ timers > 0
    /\ lcws' = ConnectLightcable
    /\ UNCHANGED <<url, timers, logVars, storeVars, callVars, now>>

\* The reconnect timer fires and runs connectLightcable.
TimerFire ==
    /\ timers > 0
    /\ timers' = timers - 1
    /\ lcws' = ConnectLightcable
    /\ UNCHANGED <<url, logVars, storeVars, callVars, now>>

\* The test without the readyState check: lcws alone.
CanSendUnchecked == lcws # "null"

\* lcws && lcws.readyState === WebSocket.OPEN
CanSend == lcws = "OPEN"

\* The send without its try/catch: an exception of send leaves the function.
SendEscapesUncaught(threw) == threw

\* try { lcws.send(...) } catch (e) { console.warn(...) }: whether an
\* exception of send leaves broadcastToLightcable.
SendEscapes(threw) == FALSE

\* What one call of broadcastToLightcable(evt) did.
Outcome(threw) ==
    IF ~CanSend THEN "skipped" ELSE IF threw THEN "threw" ELSE "sent"

\* A forwarder that drops the remove event of a delete that removed nothing
\* (the reply of hDel, at the head of replyq, is 0).
BroadcastIfRemoved(evt, no, threw) ==
    IF evt["type"] = Str("remove") /\ Head(replyq).n = 0
    THEN UNCHANGED <<notified, wire>>
    ELSE /\ notified' = Append(notified, [no |-> no, evt |-> evt, state |-> lcws,
                                          outcome |-> Outcome(threw)])
         /\ wire' = IF Outcome(threw) = "sent"
                    THEN Append(wire, [no |-> no, text |-> Stringify(evt)])
                    ELSE wire

\* A forwarder whose frames leave in the reverse order of the calls.
BroadcastReversed(evt, no, threw) ==
    /\ notified' = Append(notified, [no |-> no, evt |-> evt, state |-> lcws,
                                     outcome |-> Outcome(threw)])
    /\ wire' = IF Outcome(threw) = "sent"
               THEN <<[no |-> no, text |-> Stringify(evt)]>> \o wire
               ELSE wire

\* broadcastToLightcable(evt), called by request number no; threw tells
\* whether lcws.send throws.
Broadcast(evt, no, threw) ==
    /\ notified' = Append(notified, [no |-> no, evt |-> evt, state |-> lcws,
                                     outcome |-> Outcome(threw)])
    /\ wire' = IF Outcome(threw) = "sent"
               THEN Append(wire, [no |-> no, text |-> Stringify(evt)])
               ELSE wire

\* { type, id, lngLat, clientId }
Event(type, id, lngLat, clientId) ==
    [EmptyObj EXCEPT !["type"] = Str(type), !["id"] = id, !["lngLat"] = lngLat,
                     !["clientId"] = clientId]

(***************************************************************************)
(* Redis: the commands of the one shared connection are executed in the    *)
(* order sent, and their replies are delivered in that order.              *)
(***************************************************************************)
Cmd(c, name, f, v) == [from |-> c, cmd |-> name, field |-> f, value |-> v]

Reply(c, err, present, text, n, all, had, seen) ==
    [to |-> c, err |-> err, present |-> present, text |-> text, n |-> n,
     all |-> all, had |-> had, seen |-> seen]

Send(c, name, f, v) ==
    /\ cmdq' = Append(cmdq, Cmd(c, name, f, v))
    /\ asked' = asked \cup {req'[c].no}

\* The command rejects (the backend is unavailable): nothing is executed.
RedisFail ==
    /\ cmdq # <<>>
    /\ cmdq' = Tail(cmdq)
    /\ replyq' = Append(replyq, Reply(Head(cmdq).from, TRUE, FALSE, <<>>, 0,
                                      EmptyHash, FALSE, landed))
    /\ UNCHANGED <<store, landed, freed, asked, callVars, fwdVars, logVars, now>>

RedisHSet ==
    /\ cmdq # <<>>
    /\ Head(cmdq).cmd = "HSET"
    /\ LET m == Head(cmdq)
           r == req[m.from]
       IN /\ store' = HSet(store, m.field, m.value)
          /\ landed' = [landed EXCEPT ![m.field] =
                          [op |-> r.op, no |-> r.no, lngLat |-> r.lngLat,
                           after |-> landed[m.field].op,
                           at |-> JsonParse(m.value).obj["updatedAt"].n,
                           seq |-> Append(landed[m.field].seq, r.no)]]
          /\ replyq' = Append(replyq, Reply(m.from, FALSE, FALSE, <<>>,
                                            1 - HDelCount(store, m.field), EmptyHash,
                                            m.field \in DOMAIN store, landed'))
          /\ freed' = [freed EXCEPT ![m.field] = FALSE]
    /\ cmdq' = Tail(cmdq)
    /\ UNCHANGED <<asked, callVars, fwdVars, logVars, now>>

RedisHGet ==
    /\ cmdq # <<>>
    /\ Head(cmdq).cmd = "HGET"
    /\ LET m == Head(cmdq)
           there == m.field \in DOMAIN store
       IN replyq' = Append(replyq, Reply(m.from, FALSE, there,
                                         IF there THEN store[m.field] ELSE <<>>, 0,
                                         EmptyHash, there, landed))
    /\ cmdq' = Tail(cmdq)
    /\ UNCHANGED <<store, landed, freed, asked, callVars, fwdVars, logVars, now>>

RedisHDel ==
    /\ cmdq # <<>>
    /\ Head(cmdq).cmd = "HDEL"
    /\ LET m == Head(cmdq)
           r == req[m.from]
       IN /\ store' = HDel(store, m.field)
          /\ landed' = [landed EXCEPT ![m.field] =
                          [op |-> r.op, no |-> r.no, lngLat |-> Undef,
                           after |-> landed[m.field].op,
                           at |-> landed[m.field].at,
                           seq |-> Append(landed[m.field].seq, r.no)]]
          /\ replyq' = Append(replyq, Reply(m.from, FALSE, FALSE, <<>>,
                                            HDelCount(store, m.field), EmptyHash,
                                            m.field \in DOMAIN store, landed'))
    /\ cmdq' = Tail(cmdq)
    /\ UNCHANGED <<freed, asked, callVars, fwdVars, logVars, now>>

RedisHGetAll ==
    /\ cmdq # <<>>
    /\ Head(cmdq).cmd = "HGETALL"
    /\ replyq' = Append(replyq, Reply(Head(cmdq).from, FALSE, FALSE, <<>>, 0,
                                      store, FALSE, landed))
    /\ cmdq' = Tail(cmdq)
    /\ UNCHANGED <<store, landed, freed, asked, callVars, fwdVars, logVars, now>>

(***************************************************************************)
(* Route handlers.                                                         *)
(***************************************************************************)
\* A caller may start a request when it has none in flight.
\* (The callers are interchangeable: the first request is taken to be c1's.)
CanStart(c) ==
    /\ pc[c] \in {"idle", "done"}
    /\ ops < MaxOps
    /\ (ops = 0 => c = "c1")

\* The bookkeeping of a new request: it gets the next number, and the caller's
\* former request and response are kept in prev.
Begin(c, op, id, lngLat, clientId) ==
    /\ ops' = ops + 1
    /\ req' = [req EXCEPT ![c] = [op |-> op, id |-> id, lngLat |-> lngLat,
                                  clientId |-> clientId, no |-> ops + 1]]
    /\ prev' = [prev EXCEPT ![c] = [req |-> req[c], res |-> res[c]]]

Respond(c, status, body, list) ==
    /\ res' = [res EXCEPT ![c] = [status |-> status, body |-> body, list |-> list]]
    /\ pc' = [pc EXCEPT ![c] = "done"]

ErrorBody(msg) == [EmptyObj EXCEPT !["error"] = Str(msg)]

\* A catch block that answers 200 with an empty body.
Respond500Masked(c) == Respond(c, 200, EmptyObj, <<>>)

\* res.status(500).json({ error: 'internal' }) of every catch block
Respond500(c) == Respond(c, 500, ErrorBody("internal"), <<>>)

\* The reply at the head of replyq belongs to caller c, which awaits it at at.
Resumes(c, at) == pc[c] = at /\ replyq # <<>> /\ Head(replyq).to = c

\* The check with the bound off by one: lngLat.length < 1
PostInvalidShort(id, lngLat) == ~Truthy(id) \/ ~IsArray(lngLat) \/ Length(lngLat) < 1

\* The check without !id
PostInvalidNoId(id, lngLat) == ~IsArray(lngLat) \/ Length(lngLat) < 2

\* !id || !Array.isArray(lngLat) || lngLat.length < 2
PostInvalid(id, lngLat) == ~Truthy(id) \/ ~IsArray(lngLat) \/ Length(lngLat) < 2

\* !Array.isArray(lngLat) || lngLat.length < 2
PutInvalid(lngLat) == ~IsArray(lngLat) \/ Length(lngLat) < 2

\* The record with the first two coordinates exchanged ([lat, lng]).
MakeObjSwapped(lngLat, clientId) ==
    [EmptyObj EXCEPT !["lngLat"] = Arr([i \in 1..Len(lngLat.a) |->
                                          IF i = 1 THEN lngLat.a[2]
                                          ELSE IF i = 2 THEN lngLat.a[1]
                                          ELSE lngLat.a[i]]),
                     !["updatedAt"] = Num(now),
                     !["clientId"] = OrElse(clientId, Null)]

\* The record stamped with a clock that runs backwards.
MakeObjCountdown(lngLat, clientId) ==
    [EmptyObj EXCEPT !["lngLat"] = lngLat, !["updatedAt"] = Num(MaxClock - now),
                     !["clientId"] = OrElse(clientId, Null)]

\* { lngLat, updatedAt: Date.now(), clientId: clientId || null }
MakeObj(lngLat, clientId) ==
    [EmptyObj EXCEPT !["lngLat"] = lngLat, !["updatedAt"] = Num(now),
                     !["clientId"] = OrElse(clientId, Null)]

\* POST /annotations, up to await redis.hSet
PostStart(c, id, lngLat, clientId) ==
    /\ CanStart(c)
    /\ Begin(c, "create", id, lngLat, clientId)
    /\ IF PostInvalid(id, lngLat)
       THEN /\ Respond(c, 400, ErrorBody("invalid payload, need id and lngLat"), <<>>)
            /\ loc' = [loc EXCEPT ![c] = NoLoc]
            /\ UNCHANGED <<cmdq, asked>>
       ELSE /\ loc' = [loc EXCEPT ![c] = [NoLoc EXCEPT !.obj = MakeObj(lngLat, clientId)]]
            /\ Send(c, "HSET", id.s, Stringify(MakeObj(lngLat, clientId)))
            /\ pc' = [pc EXCEPT ![c] = "hSet"]
            /\ UNCHANGED res
    /\ UNCHANGED <<store, replyq, landed, freed, fwdVars, logVars, now>>

\* A handler that broadcasts the add event whether or not hSet rejected.
PostAfterHSetEager(c, threw) ==
    /\ Resumes(c, "hSet")
    /\ req[c].op = "create"
    /\ LET r == Head(replyq)
           q == req[c]
       IN /\ loc' = [loc EXCEPT ![c].err = r.err, ![c].had = r.had, ![c].seen = r.seen]
          /\ Broadcast(Event("add", q.id, q.lngLat, OrElse(q.clientId, Null)), q.no, threw)
          /\ IF r.err
             THEN Respond500(c)
             ELSE Respond(c, 201, Spread(IdObj(q.id), loc[c].obj), <<>>)
    /\ replyq' = Tail(replyq)
    /\ UNCHANGED <<store, cmdq, landed, freed, asked, req, prev, ops, fwdVars, now>>

\* POST /annotations, after await redis.hSet
PostAfterHSet(c, threw) ==
    /\ Resumes(c, "hSet")
    /\ req[c].op = "create"
    /\ LET r == Head(replyq)
           q == req[c]
       IN /\ loc' = [loc EXCEPT ![c].err = r.err, ![c].had = r.had, ![c].seen = r.seen]
          /\ IF r.err \/ SendEscapes(threw /\ CanSend)
             THEN Respond500(c) /\ UNCHANGED logVars
             ELSE /\ Broadcast(Event("add", q.id, q.lngLat, OrElse(q.clientId, Null)),
                               q.no, threw)
                  /\ Respond(c, 201, Spread(IdObj(q.id), loc[c].obj), <<>>)
    /\ replyq' = Tail(replyq)
    /\ UNCHANGED <<store, cmdq, landed, freed, asked, req, prev, ops, fwdVars, now>>

\* PUT /annotations/:id, up to await redis.hGet.  The route binds :id to a
\* non-empty path segment.
PutStart(c, id, lngLat, clientId) ==
    /\ CanStart(c)
    /\ id \in Ids
    /\ Begin(c, "update", Str(id), lngLat, clientId)
    /\ IF PutInvalid(lngLat)
       THEN /\ Respond(c, 400, ErrorBody("invalid payload, need lngLat"), <<>>)
            /\ UNCHANGED <<cmdq, asked>>
       ELSE /\ Send(c, "HGET", id, <<>>)
            /\ pc' = [pc EXCEPT ![c] = "hGet"]
            /\ UNCHANGED res
    /\ loc' = [loc EXCEPT ![c] = NoLoc]
    /\ UNCHANGED <<store, replyq, landed, freed, fwdVars, logVars, now>>

\* PUT /annotations/:id, from the reply of hGet up to await redis.hSet
PutAfterHGet(c) ==
    /\ Resumes(c, "hGet")
    /\ LET r == Head(replyq)
           q == req[c]
       IN IF r.err
          THEN /\ Respond500(c)
               /\ loc' = [loc EXCEPT ![c].err = TRUE]
               /\ UNCHANGED cmdq
          ELSE /\ loc' = [loc EXCEPT ![c].present = r.present,
                                     ![c].existingRaw = r.text,
                                     ![c].hadRead = r.had,
                                     ![c].obj = MakeObj(q.lngLat, q.clientId)]
               /\ cmdq' = Append(cmdq, Cmd(c, "HSET", q.id.s,
                                           Stringify(MakeObj(q.lngLat, q.clientId))))
               /\ pc' = [pc EXCEPT ![c] = "hSet"]
               /\ UNCHANGED res
    /\ replyq' = Tail(replyq)
    /\ UNCHANGED <<store, landed, freed, asked, req, prev, ops, fwdVars, logVars, now>>

\* existed reported without looking at existingRaw
ExistedAlways(present, existingRaw) == TRUE

\* !!existingRaw: null and the empty string are falsy
Existed(present, existingRaw) == present /\ existingRaw # <<>>

\* PUT /annotations/:id, after await redis.hSet
PutAfterHSet(c, threw) ==
    /\ Resumes(c, "hSet")
    /\ req[c].op = "update"
    /\ LET r == Head(replyq)
           q == req[c]
       IN /\ loc' = [loc EXCEPT ![c].err = r.err, ![c].had = r.had, ![c].seen = r.seen]
          /\ IF r.err \/ SendEscapes(threw /\ CanSend)
             THEN Respond500(c) /\ UNCHANGED logVars
             ELSE /\ Broadcast(Event("update", q.id, q.lngLat, OrElse(q.clientId, Null)),
                               q.no, threw)
                  /\ Respond(c, 200,
                             [Spread(IdObj(q.id), loc[c].obj) EXCEPT !["existed"] =
                                 Bool(Existed(loc[c].present, loc[c].existingRaw))],
                             <<>>)
    /\ replyq' = Tail(replyq)
    /\ UNCHANGED <<store, cmdq, landed, freed, asked, req, prev, ops, fwdVars, now>>

\* removed >= 0
RemovedAlways(n) == n >= 0

\* removed > 0
Removed(n) == n > 0

\* DELETE /annotations/:id, up to await redis.hDel
DeleteStart(c, id) ==
    /\ CanStart(c)
    /\ id \in Ids
    /\ Begin(c, "delete", Str(id), Undef, Undef)
    /\ Send(c, "HDEL", id, <<>>)
    /\ pc' = [pc EXCEPT ![c] = "hDel"]
    /\ loc' = [loc EXCEPT ![c] = NoLoc]
    /\ UNCHANGED <<res, store, replyq, landed, freed, fwdVars, logVars, now>>

\* DELETE /annotations/:id, after await redis.hDel
DeleteAfterHDel(c, threw) ==
    /\ Resumes(c, "hDel")
    /\ LET r == Head(replyq)
           q == req[c]
       IN /\ loc' = [loc EXCEPT ![c].err = r.err, ![c].had = r.had, ![c].seen = r.seen]
          /\ IF r.err \/ SendEscapes(threw /\ CanSend)
             THEN Respond500(c) /\ UNCHANGED <<logVars, freed>>
             ELSE /\ Broadcast(Event("remove", q.id, Undef, Null), q.no, threw)
                  /\ freed' = [freed EXCEPT ![q.id.s] = TRUE]
                  /\ Respond(c, 200,
                             [IdObj(q.id) EXCEPT !["removed"] = Bool(Removed(r.n))], <<>>)
    /\ replyq' = Tail(replyq)
    /\ UNCHANGED <<store, cmdq, landed, asked, req, prev, ops, fwdVars, now>>

\* PUT /annotations/ with an empty id segment does not match the route
\* '/annotations/:id': the handler does not run and Express answers 404.
PutRouteMiss(c, lngLat, clientId) ==
    /\ CanStart(c)
    /\ Begin(c, "unrouted", Str(""), lngLat, clientId)
    /\ Respond(c, 404, EmptyObj, <<>>)
    /\ loc' = [loc EXCEPT ![c] = NoLoc]
    /\ UNCHANGED <<storeVars, fwdVars, logVars, now>>

\* The fields of the reply of hGetAll, in the order Object.keys lists them.
RECURSIVE KeysOf(_, _)
KeysOf(all, i) ==
    IF i > Len(FieldOrder) THEN <<>>
    ELSE (IF FieldOrder[i] \in DOMAIN all THEN <<FieldOrder[i]>> ELSE <<>>)
         \o KeysOf(all, i + 1)

\* try { return { id, ...JSON.parse(all[id]) } } catch (e) { return null }
\* of one field; ok is FALSE for null.
Entry(all, id) ==
    LET p == JsonParse(all[id])
    IN [ok |-> p.ok, obj |-> IF p.ok THEN Spread(IdObj(Str(id)), p.obj) ELSE EmptyObj]

\* Object.keys(all).map(...).filter(Boolean)
RECURSIVE MapFilter(_, _)
MapFilter(all, ks) ==
    IF ks = <<>> THEN <<>>
    ELSE LET e == Entry(all, Head(ks))
         IN (IF e.ok THEN <<e.obj>> ELSE <<>>) \o MapFilter(all, Tail(ks))

ListOf(all) == MapFilter(all, KeysOf(all, 1))

\* GET /annotations, up to await redis.hGetAll
ListStart(c) ==
    /\ CanStart(c)
    /\ Begin(c, "list", Undef, Undef, Undef)
    /\ Send(c, "HGETALL", "", <<>>)
    /\ pc' = [pc EXCEPT ![c] = "hGetAll"]
    /\ loc' = [loc EXCEPT ![c] = NoLoc]
    /\ UNCHANGED <<res, store, replyq, landed, freed, fwdVars, logVars, now>>

\* GET /annotations, after await redis.hGetAll
ListAfterHGetAll(c) ==
    /\ Resumes(c, "hGetAll")
    /\ LET r == Head(replyq)
       IN /\ loc' = [loc EXCEPT ![c].err = r.err, ![c].seen = r.seen]
          /\ IF r.err
             THEN Respond500(c)
             ELSE Respond(c, 200, EmptyObj, ListOf(r.all))
    /\ replyq' = Tail(replyq)
    /\ UNCHANGED <<store, cmdq, landed, freed, asked, req, prev, ops, fwdVars, logVars, now>>

\* Time passes: Date.now() does not decrease.
Tick ==
    /\ now < MaxClock
    /\ now' = now + 1
    /\ UNCHANGED <<storeVars, callVars, fwdVars, logVars>>

\* The steps of the route handlers, of Redis and of the clock.
NextStore ==
    \/ \E c \in Callers, r \in PostRequests :
          PostStart(c, r.id, r.lngLat, r.clientId)
    \/ \E c \in Callers, t \in BOOLEAN : PostAfterHSet(c, t)
    \/ \E c \in Callers, r \in PutRequests :
          PutStart(c, r.id, r.lngLat, r.clientId)
    \/ \E c \in Callers : PutAfterHGet(c)
    \/ \E c \in Callers, t \in BOOLEAN : PutAfterHSet(c, t)
    \/ \E c \in Callers, id \in Ids : DeleteStart(c, id)
    \/ \E c \in Callers, t \in BOOLEAN : DeleteAfterHDel(c, t)
    \/ \E c \in Callers : PutRouteMiss(c, Arr(<<1, 2>>), Undef)
    \/ \E c \in Callers : ListStart(c)
    \/ \E c \in Callers : ListAfterHGetAll(c)
    \/ RedisFail
    \/ RedisHSet
    \/ RedisHGet
    \/ RedisHDel
    \/ RedisHGetAll
    \/ Tick

\* The steps of the Lightcable socket and of the reconnect timer.
NextForwarder ==
    \/ WsOpen
    \/ WsError
    \/ WsClose
    \/ TimerFire

\* The server without LIGHTCABLE_WS_URL (its default): lcws stays null and
\* no socket or timer event occurs.
InitStore == Init /\ ~url
SpecStore == InitStore /\ [][NextStore]_vars

(***************************************************************************)
(* Properties of the store (checked under SpecStore).                      *)
(***************************************************************************)
Done(c) == pc[c] = "done"

\* The entries of a list result whose id is i.
EntriesOf(list, i) == {k \in 1..Len(list) : list[k]["id"] = Str(i)}

\* The list result holds exactly one record of id i, and its position is p.
OneRecord(list, i, p) ==
    /\ Cardinality(EntriesOf(list, i)) = 1
    /\ \A k \in EntriesOf(list, i) : list[k]["lngLat"] = p

\* A 200 response of list by caller d.
Listed(d) == Done(d) /\ req[d].op = "list" /\ res[d].status = 200

\* C1: when the last write or delete that Redis executed on an id is a
\* create_or_replace(id, position), the list computed from the hash, and
\* every list response whose hGetAll Redis executed at such a moment, holds
\* exactly one record of that id, and its position is the position given to
\* the create (whether the id held a record before or not).
C1_CreateThenList ==
    /\ (\E i \in Ids : landed[i].op = "create") =>
          LET l == ListOf(store)
          IN \A i \in Ids : landed[i].op = "create" => OneRecord(l, i, landed[i].lngLat)
    /\ \A d \in Callers : Listed(d) =>
          \A i \in Ids : loc[d].seen[i].op = "create" =>
             OneRecord(res[d].list, i, loc[d].seen[i].lngLat)

\* A create of "a" (which held a record before) has returned 201, and a later
\* list has returned it.
C1_Witness ==
    \E d \in Callers :
       /\ Listed(d)
       /\ loc[d].seen["a"].op = "create"
       /\ Len(res[d].list) = 1
       /\ \E c \in Callers :
             LET q == IF c = d THEN prev[c] ELSE [req |-> req[c], res |-> res[c]]
             IN /\ q.req.op = "create"
                /\ q.req.no = loc[d].seen["a"].no
                /\ q.res.status = 201

\* Caller c's last two requests were update(id, p1) and then update(id, p2),
\* and both returned 200.
TwoUpdates(c) ==
    /\ Done(c)
    /\ req[c].op = "update"
    /\ res[c].status = 200
    /\ prev[c].req.op = "update"
    /\ prev[c].res.status = 200
    /\ prev[c].req.id = req[c].id

\* C2: after update(id, p1) and then update(id, p2) of one caller, the second
\* updatedAt is >= the first, and as long as no other request's write or
\* delete of id was executed after them, the hash holds one record of id,
\* whose position is p2.
C2_UpdateTwice ==
    \A c \in Callers : TwoUpdates(c) =>
       /\ res[c].body["updatedAt"].n >= prev[c].res.body["updatedAt"].n
       /\ landed[req[c].id.s].no \in {req[c].no, prev[c].req.no} =>
             /\ req[c].id.s \in DOMAIN store
             /\ OneRecord(ListOf(store), req[c].id.s, req[c].lngLat)

\* Two updates of one caller with different positions, the clock having
\* advanced between them.
C2_Witness ==
    \E c \in Callers :
       /\ TwoUpdates(c)
       /\ req[c].lngLat # prev[c].req.lngLat
       /\ res[c].body["updatedAt"].n > prev[c].res.body["updatedAt"].n
       /\ landed[req[c].id.s].no = req[c].no

\* The position is missing, is no array, or has fewer than 2 elements.
BadPosition(p) == ~(p.t = "array" /\ Len(p.a) >= 2)

\* Request number k passed an event to broadcastToLightcable.
Notified(k) == \E j \in 1..Len(notified) : notified[j].no = k

\* C3: a create_or_replace or update whose position is missing, no array or
\* shorter than 2 is answered 400 without any Redis command and without any
\* event; and every value in the hash is a record whose position is an array
\* of at least 2 elements.
C3_BadPositionRejected ==
    /\ \A c \in Callers :
          (req[c].op \in {"create", "update"} /\ BadPosition(req[c].lngLat)) =>
             /\ Done(c)
             /\ res[c].status = 400
             /\ req[c].no \notin asked
             /\ ~Notified(req[c].no)
    /\ \A f \in DOMAIN store :
          LET p == JsonParse(store[f])
          IN p.ok /\ ~BadPosition(p.obj["lngLat"])

\* A create and an update with a one-element position have both been rejected.
C3_Witness ==
    /\ \E c \in Callers : req[c].op = "create" /\ req[c].lngLat = Arr(<<1>>) /\ Done(c)
    /\ \E c \in Callers : req[c].op = "update" /\ req[c].lngLat = Arr(<<1>>) /\ Done(c)

\* C4 as claimed: on both paths a request whose id is missing or empty is
\* answered 400 (InvalidArgument) before any Redis command.
C4_Original ==
    \A c \in Callers :
       (Done(c) /\ req[c].op \in {"create", "unrouted"} /\ ~Truthy(req[c].id)) =>
          /\ res[c].status = 400
          /\ req[c].no \notin asked

\* C4, amended: create_or_replace answers a missing or empty id with 400
\* before any Redis command; update does not check the id: its id is the path
\* segment bound by the route, which is never empty, and a PUT whose id
\* segment is empty is not routed to update and is answered 404 without any
\* Redis command.  No value is ever stored, and no command is ever sent, under
\* an empty id.
C4_EmptyIdNeverStored ==
    /\ \A c \in Callers :
          /\ (req[c].op = "create" /\ ~Truthy(req[c].id)) =>
                Done(c) /\ res[c].status = 400 /\ req[c].no \notin asked
          /\ req[c].op = "unrouted" =>
                Done(c) /\ res[c].status = 404 /\ req[c].no \notin asked
          /\ req[c].op = "update" => req[c].id.s # ""
    /\ "" \notin DOMAIN store
    /\ \A j \in 1..Len(cmdq) : cmdq[j].cmd = "HGETALL" \/ cmdq[j].field # ""

\* A create with an empty id and a PUT with an empty id segment have both been
\* answered.
C4_Witness ==
    /\ \E c \in Callers : req[c].op = "create" /\ req[c].id = Str("") /\ res[c].status = 400
    /\ \E c \in Callers : req[c].op = "unrouted" /\ res[c].status = 404

\* C5: a delete answers 500 only when its Redis call rejected; otherwise it
\* answers 200 with removed = true exactly when the hash held a value at id
\* when Redis executed the hDel, and that value is gone once the hDel is the
\* last command executed on id.
C5_DeleteRemoved ==
    \A c \in Callers : (Done(c) /\ req[c].op = "delete") =>
       /\ loc[c].err => res[c].status = 500
       /\ ~loc[c].err =>
             /\ res[c].status = 200
             /\ res[c].body["id"] = req[c].id
             /\ res[c].body["removed"] = Bool(loc[c].had)
             /\ landed[req[c].id.s].no = req[c].no => req[c].id.s \notin DOMAIN store

\* One delete has answered removed = true and another removed = false.
C5_Witness ==
    /\ \E c \in Callers :
          Done(c) /\ req[c].op = "delete" /\ res[c].body["removed"] = Bool(TRUE)
    /\ \E c \in Callers :
          Done(c) /\ req[c].op = "delete" /\ res[c].body["removed"] = Bool(FALSE)
          /\ res[c].status = 200

\* C6 as claimed: after a delete of id has returned, and until Redis executes
\* the next write of id, the list computed from the hash holds no record of
\* id.
C6_Original ==
    (\E i \in Ids : freed[i]) =>
       LET l == ListOf(store)
       IN \A i \in Ids : freed[i] => EntriesOf(l, i) = {}

\* C6, amended: from the moment Redis executes a delete of id (not only from
\* the moment the delete returns) until it executes the next write of id, the
\* list computed from the hash, and every list response whose hGetAll Redis
\* executed in between, holds no record of id; a create_or_replace of id
\* executed after a delete makes exactly one record of id appear again, and
\* it is answered 201.
C6_DeleteThenList ==
    /\ (\E i \in Ids : landed[i].op = "delete") =>
          LET l == ListOf(store)
          IN \A i \in Ids : landed[i].op = "delete" => EntriesOf(l, i) = {}
    /\ \A d \in Callers : Listed(d) =>
          \A i \in Ids : loc[d].seen[i].op = "delete" => EntriesOf(res[d].list, i) = {}
    /\ \A i \in Ids : (landed[i].op = "create" /\ landed[i].after = "delete") =>
          Cardinality(EntriesOf(ListOf(store), i)) = 1
    /\ \A c \in Callers :
          (Done(c) /\ req[c].op = "create" /\ ~loc[c].err
             /\ Truthy(req[c].id) /\ ~BadPosition(req[c].lngLat)) =>
             res[c].status = 201

\* The record of "a" was deleted (removed = true) and "a" was then created
\* again with 201.
C6_Witness ==
    /\ landed["a"].op = "create"
    /\ landed["a"].after = "delete"
    /\ \E c \in Callers :
          /\ Done(c) /\ req[c].no = landed["a"].no /\ res[c].status = 201
          /\ \E d \in Callers :
                LET q == IF c = d THEN prev[c] ELSE [req |-> req[d], res |-> res[d]]
                IN q.req.op = "delete" /\ q.res.body["removed"] = Bool(TRUE)

\* A 200 response of update by caller c.
Updated(c) == Done(c) /\ req[c].op = "update" /\ res[c].status = 200

\* C7 as claimed: the existed flag of a successful update tells whether the
\* hash held a value at id when Redis executed the update's write.
C7_Original ==
    \A c \in Callers : Updated(c) => res[c].body["existed"] = Bool(loc[c].had)

\* C7, amended: the existed flag of a successful update tells whether the
\* hash held a value at id when Redis executed the update's read (hGet),
\* which precedes its write; the write is executed in both cases.
C7_ExistedAtRead ==
    \A c \in Callers : Updated(c) =>
       /\ res[c].body["existed"] = Bool(loc[c].hadRead)
       /\ loc[c].seen[req[c].id.s].no = req[c].no

\* An update has answered existed = true although another caller's delete was
\* executed between its read and its write, so that its write created the
\* record.
C7_Witness ==
    \E c \in Callers :
       /\ Updated(c)
       /\ res[c].body["existed"] = Bool(TRUE)
       /\ loc[c].hadRead
       /\ ~loc[c].had

(***************************************************************************)
(* list over a hash that other Redis clients have written to.              *)
(***************************************************************************)
\* Values found in the hash: a record, text that is no JSON, truncated JSON,
\* a JSON number, JSON null, an empty object, a record whose position has one
\* element, and a record that carries an id property of its own.
Payloads ==
    { Stringify(OldRecord),
      <<"oops">>,
      <<"{", "\"lngLat\"", "[", "1">>,
      <<"7">>,
      <<"null">>,
      <<"{", "}">>,
      Stringify([OldRecord EXCEPT !["lngLat"] = Arr(<<1>>)]),
      Stringify([OldRecord EXCEPT !["id"] = Str("b")]) }

InitList ==
    /\ store \in [Ids -> Payloads]
    /\ now = 0
    /\ cmdq = <<>>
    /\ replyq = <<>>
    /\ landed = [i \in Ids |-> NoLanded]
    /\ freed = [i \in Ids |-> FALSE]
    /\ asked = {}
    /\ InitCalls
    /\ InitForwarder
    /\ ~url

NextList ==
    \/ \E c \in Callers : ListStart(c)
    \/ \E c \in Callers : ListAfterHGetAll(c)
    \/ RedisHGetAll
    \/ RedisFail

SpecList == InitList /\ [][NextList]_vars

\* The text is a serialized record: an object with a position of at least 2
\* elements, a number updatedAt, a clientId that is null or a string, and
\* no other property.
ValidRecord(text) ==
    LET p == JsonParse(text)
    IN /\ p.ok
       /\ p.isObj
       /\ ~BadPosition(p.obj["lngLat"])
       /\ p.obj["updatedAt"].t = "number"
       /\ p.obj["clientId"].t \in {"null", "string"}
       /\ \A k \in KeySet \ {"lngLat", "updatedAt", "clientId"} : p.obj[k] = Undef

\* C8: a list response holds exactly the entries of the hash whose value
\* parses as a valid record, each under the id of its field, and nothing for
\* the other entries.
C8_ListSkipsInvalid ==
    \A d \in Callers : Listed(d) =>
       /\ Len(res[d].list) = Cardinality({f \in DOMAIN store : ValidRecord(store[f])})
       /\ \A f \in DOMAIN store :
             IF ValidRecord(store[f])
             THEN \E k \in 1..Len(res[d].list) :
                     res[d].list[k] = Spread(IdObj(Str(f)), JsonParse(store[f]).obj)
             ELSE EntriesOf(res[d].list, f) = {}

(***************************************************************************)
(* The server with its forwarder: requests that write or delete, and the   *)
(* events of the Lightcable socket.                                        *)
(***************************************************************************)
NextWrites ==
    \/ \E c \in Callers : PostStart(c, Str("a"), Arr(<<1, 2>>), Undef)
    \/ \E c \in Callers, t \in BOOLEAN : PostAfterHSet(c, t)
    \/ \E c \in Callers : PutStart(c, "a", Arr(<<3, 4, 5>>), Str("k1"))
    \/ \E c \in Callers : PutAfterHGet(c)
    \/ \E c \in Callers, t \in BOOLEAN : PutAfterHSet(c, t)
    \/ \E c \in Callers : DeleteStart(c, "a")
    \/ \E c \in Callers, t \in BOOLEAN : DeleteAfterHDel(c, t)
    \/ RedisFail
    \/ RedisHSet
    \/ RedisHGet
    \/ RedisHDel

SpecForwarder == Init /\ [][NextWrites \/ NextForwarder]_vars

\* The request wrote or deleted, and none of its Redis calls rejected.
Wrote(c) == Done(c) /\ req[c].op \in {"create", "update", "delete"} /\ ~loc[c].err

\* The entry of notified made by request number k.
EntryOf(k) == notified[CHOOSE j \in 1..Len(notified) : notified[j].no = k]

\* C9: a create_or_replace, update or delete none of whose Redis calls
\* rejected is answered with its success status and body, after its command
\* was executed and its event was passed to broadcastToLightcable, whatever
\* the state of the forwarder at that call (no endpoint, connecting, open,
\* closing, or open with a send that throws).
C9_ForwarderNeverFails ==
    \A c \in Callers : Wrote(c) =>
       /\ res[c].status = (IF req[c].op = "create" THEN 201 ELSE 200)
       /\ res[c].body["id"] = req[c].id
       /\ req[c].op # "delete" => res[c].body["lngLat"] = req[c].lngLat
       /\ req[c].op = "delete" => res[c].body["removed"] = Bool(loc[c].had)
       /\ loc[c].seen[req[c].id.s].no = req[c].no
       /\ Notified(req[c].no)

\* One request was answered with success although its send threw, and another
\* although the socket was not open.
C9_Witness ==
    /\ \E c \in Callers : Wrote(c) /\ EntryOf(req[c].no).outcome = "threw"
    /\ \E c \in Callers : Wrote(c) /\ EntryOf(req[c].no).outcome = "skipped"
                          /\ EntryOf(req[c].no).state \in {"CONNECTING", "CLOSING", "null"}
                          /\ url

\* C10: every frame on the wire is the serialized event of exactly one call of
\* broadcastToLightcable, made while the socket was open, and no call has two
\* frames; so an event passed while the socket was not open has no frame in
\* any later state, whatever the socket did since.
C10_AtMostOnce ==
    /\ \A j \in 1..Len(wire) :
          /\ Cardinality({k \in 1..Len(notified) : notified[k].no = wire[j].no}) = 1
          /\ EntryOf(wire[j].no).state = "OPEN"
          /\ EntryOf(wire[j].no).outcome = "sent"
          /\ wire[j].text = Stringify(EntryOf(wire[j].no).evt)
    /\ \A i, j \in 1..Len(wire) : wire[i].no = wire[j].no => i = j
    /\ \A k \in 1..Len(notified) :
          notified[k].outcome # "sent" => \A j \in 1..Len(wire) : wire[j].no # notified[k].no

\* An event was skipped while the socket was connecting; the socket has opened
\* since, and a later event was sent.
C10_Witness ==
    /\ Len(notified) = 2
    /\ notified[1].outcome = "skipped"
    /\ notified[1].state = "CONNECTING"
    /\ notified[2].outcome = "sent"
    /\ Len(wire) = 1

(***************************************************************************)
(* Reconnection (liveness).  A socket that has reported an error is closed *)
(* by ws, which then emits 'close'; and a timer that was set fires.        *)
(***************************************************************************)
SpecReconnect ==
    /\ Init
    /\ [][NextWrites \/ NextForwarder]_vars
    /\ WF_vars(lcws = "CLOSING" /\ WsClose)
    /\ WF_vars(TimerFire)

\* C11: with LIGHTCABLE_WS_URL set, whenever the socket has errored or closed
\* (from CONNECTING or from OPEN), connectLightcable runs again later and a
\* new socket is connecting, however many times this has happened before; and
\* whenever lcws is null, a reconnect timer is pending.
C11_Reconnects ==
    /\ []((url /\ lcws \in {"CLOSING", "null"}) => <>(lcws = "CONNECTING"))
    /\ []((url /\ lcws = "null") => timers > 0)

\* An event was skipped because the socket had closed, and a later event found
\* a new socket connecting.
C11_Witness ==
    /\ url
    /\ Len(notified) = 2
    /\ notified[1].state = "null"
    /\ notified[2].state = "CONNECTING"

(***************************************************************************)
(* The endpoint becomes reachable.  In addition to SpecReconnect, a        *)
(* connecting socket does not connect forever: it opens or fails.          *)
(***************************************************************************)
SpecReachable ==
    /\ Init
    /\ [][NextWrites \/ NextForwarder]_vars
    /\ WF_vars(lcws = "CLOSING" /\ WsClose)
    /\ WF_vars(TimerFire)
    /\ WF_vars(lcws = "CONNECTING" /\ (WsOpen \/ WsError \/ WsClose))

\* The frame of the call of broadcastToLightcable recorded in e is on the wire.
OnWire(e) == \E j \in 1..Len(wire) : wire[j].no = e.no /\ wire[j].text = Stringify(e.evt)

\* C12: with LIGHTCABLE_WS_URL set, if from some moment on the socket neither
\* errors nor closes (the endpoint stays reachable), the socket is eventually
\* OPEN and stays so; every event passed to broadcastToLightcable while the
\* socket is OPEN and whose send does not throw is on the wire, and no event
\* passed while the socket was not OPEN is ever on the wire.
C12_DeliversOnceReachable ==
    /\ (url /\ <>[][~WsError /\ ~WsClose]_vars) => <>[](lcws = "OPEN")
    /\ [](\A k \in 1..Len(notified) :
             LET e == notified[k]
             IN /\ (e.state = "OPEN" /\ e.outcome # "threw") => OnWire(e)
                /\ e.state # "OPEN" => \A j \in 1..Len(wire) : wire[j].no # e.no)

\* An event was passed while lcws was null (the socket had closed) and was
\* skipped; the socket has reconnected and opened since, and the next event
\* was sent: the wire holds that one frame only.
C12_Witness ==
    /\ url
    /\ Len(notified) = 2
    /\ notified[1].state = "null"
    /\ notified[2].state = "OPEN"
    /\ notified[2].outcome = "sent"
    /\ Len(wire) = 1
    /\ wire[1].no = notified[2].no

(***************************************************************************)
(* The forwarder with and without LIGHTCABLE_WS_URL (under SpecForwarder). *)
(***************************************************************************)
\* C13: without LIGHTCABLE_WS_URL, lcws is null in every state, no socket is
\* ever created and no timer ever set, and every call of
\* broadcastToLightcable finds lcws null and sends nothing; with
\* LIGHTCABLE_WS_URL, the first state has a socket that is connecting.
C13_InertWithoutUrl ==
    /\ url => (lcws = "CONNECTING" /\ timers = 0)
    /\ [](~url =>
            /\ lcws = "null"
            /\ timers = 0
            /\ wire = <<>>
            /\ \A k \in 1..Len(notified) :
                  notified[k].state = "null" /\ notified[k].outcome = "skipped")
    /\ [][~url => UNCHANGED <<lcws, timers, wire>>]_vars

\* Without LIGHTCABLE_WS_URL two events have been passed to
\* broadcastToLightcable and nothing was sent.
C13_Witness ==
    /\ ~url
    /\ Len(notified) = 2
    /\ wire = <<>>
    /\ lcws = "null"

(***************************************************************************)
(* Events and failures of the store operations (under SpecStore).          *)
(***************************************************************************)
\* The requests that have been answered, each with its response: every
\* caller's last one and the one before it.
Answered ==
    {[req |-> req[c], res |-> res[c]] : c \in {d \in Callers : Done(d)}}
       \cup {prev[c] : c \in Callers}

\* The calls of broadcastToLightcable made by request number k.
CallsOf(k) == {j \in 1..Len(notified) : notified[j].no = k}

\* C14: every delete that was answered 200 (its hDel did not reject) has
\* passed exactly one event to broadcastToLightcable: { type: 'remove', id,
\* clientId: null }, without a position, whether removed is true or false.
C14_RemoveEventAlways ==
    \A x \in Answered : (x.req.op = "delete" /\ x.res.status = 200) =>
       /\ Cardinality(CallsOf(x.req.no)) = 1
       /\ \A j \in CallsOf(x.req.no) :
             /\ notified[j].evt = Event("remove", x.req.id, Undef, Null)
             /\ LET text == Stringify(notified[j].evt)
                IN \A t \in 1..Len(text) : text[t] # Quote("lngLat")

\* A delete of "a" answered removed = true and a delete of "b" answered
\* removed = false, and each has passed its remove event.
C14_Witness ==
    /\ Len(notified) = 2
    /\ \E x, y \in Answered :
          /\ x.req.op = "delete" /\ x.req.id = Str("a")
          /\ x.res.body["removed"] = Bool(TRUE)
          /\ y.req.op = "delete" /\ y.req.id = Str("b")
          /\ y.res.body["removed"] = Bool(FALSE)
          /\ notified[1].evt["type"] = Str("remove")
          /\ notified[2].evt["type"] = Str("remove")

\* C15: a list, create_or_replace, update or delete one of whose Redis calls
\* rejected is answered 500 { error: 'internal' }; none of its writes or
\* deletes was executed (for an update whose hGet was answered and whose hSet
\* rejected as well), so that the hash is as it was at the start as long as
\* no other request's write or delete was executed;
\* and it has passed no event to broadcastToLightcable.  (A Redis call that
\* rejects has executed nothing.)
C15_BackendFailure ==
    /\ \A c \in Callers : (Done(c) /\ loc[c].err) =>
          /\ req[c].op \in {"list", "create", "update", "delete"}
          /\ res[c].status = 500
          /\ res[c].body = ErrorBody("internal")
          /\ res[c].list = <<>>
          /\ CallsOf(req[c].no) = {}
          /\ \A i \in Ids :
                \A t \in 1..Len(landed[i].seq) : landed[i].seq[t] # req[c].no
    /\ \A x \in Answered : x.res.status = 500 => CallsOf(x.req.no) = {}
    /\ (\A i \in Ids : landed[i].op = "none") =>
          store = HSet(EmptyHash, "a", Stringify(OldRecord))

\* An update whose hGet was answered and whose hSet rejected has been answered
\* 500, and so has a create whose hSet rejected; the hash is as it was at the
\* start.
C15_Witness ==
    /\ \E c \in Callers :
          /\ Done(c) /\ req[c].op = "update" /\ loc[c].err
          /\ loc[c].obj # EmptyObj
          /\ loc[c].hadRead
    /\ \E c \in Callers : Done(c) /\ req[c].op = "create" /\ loc[c].err
    /\ store = HSet(EmptyHash, "a", Stringify(OldRecord))

\* A create_or_replace or update with a valid id and position, none of whose
\* Redis calls rejected.
GoodWrite(c) ==
    /\ req[c].op \in {"create", "update"}
    /\ Truthy(req[c].id)
    /\ ~BadPosition(req[c].lngLat)
    /\ ~loc[c].err

\* C16: every create_or_replace and update with valid input whose Redis calls
\* did not reject is answered 201 or 200 with its own record, whatever other
\* requests on the same id were in flight; and while the last command Redis
\* executed on an id is the hSet of one of them, the hash holds at that id
\* exactly the record that request built, which list reads back as the one
\* entry of the id, with that request's position.
C16_LastWriteWins ==
    /\ \A c \in Callers : (Done(c) /\ GoodWrite(c)) =>
          /\ res[c].status = (IF req[c].op = "create" THEN 201 ELSE 200)
          /\ res[c].body["lngLat"] = req[c].lngLat
          /\ res[c].body["updatedAt"] = loc[c].obj["updatedAt"]
    /\ \A i \in Ids : landed[i].op \in {"create", "update"} =>
          /\ i \in DOMAIN store
          /\ LET e == Entry(store, i)
             IN e.ok /\ e.obj["id"] = Str(i) /\ e.obj["lngLat"] = landed[i].lngLat
          /\ \A c \in Callers : req[c].no = landed[i].no => store[i] = Stringify(loc[c].obj)

\* An update of "a" (request 1) and a create of "a" (request 2) ran
\* concurrently: the create's hSet was executed first and the update's last.
\* Both have been answered with success, and the hash holds the update's
\* record.
C16_Witness ==
    /\ landed["a"].seq = <<2, 1>>
    /\ \E c, d \in Callers :
          /\ c # d
          /\ Done(c) /\ req[c].no = 1 /\ req[c].op = "update" /\ res[c].status = 200
          /\ Done(d) /\ req[d].no = 2 /\ req[d].op = "create" /\ res[d].status = 201
          /\ req[c].lngLat # req[d].lngLat
          /\ store["a"] = Stringify(loc[c].obj)

\* The step appends one call to notified.
Notifies == Len(notified') = Len(notified) + 1

\* C17: a create_or_replace or update has passed exactly one event to
\* broadcastToLightcable if it was answered 201 or 200, and none if it was
\* answered otherwise or is still in flight; a list passes none.  At the
\* step that passes an add or update event, Redis has already executed the
\* hSet of that request, and the event's type, id, position and clientId are
\* those of the request and of the record that this hSet stored.
C17_EventAfterWrite ==
    /\ [](/\ \A x \in Answered : x.req.op \in {"create", "update"} =>
                Cardinality(CallsOf(x.req.no)) =
                   (IF x.res.status \in {200, 201} THEN 1 ELSE 0)
          /\ \A c \in Callers : ~Done(c) => CallsOf(req[c].no) = {}
          /\ \A c \in Callers : req[c].op = "list" => CallsOf(req[c].no) = {}
          /\ \A x \in Answered : x.req.op = "list" => CallsOf(x.req.no) = {}
          /\ \A k \in 1..Len(notified) : notified[k].evt["type"] \in
                                            {Str("add"), Str("update"), Str("remove")})
    /\ [][Notifies =>
            LET e == notified'[Len(notified')]
            IN e.evt["type"] \in {Str("add"), Str("update")} =>
                  \E c \in Callers :
                     /\ req[c].no = e.no
                     /\ e.evt["type"] = Str(IF req[c].op = "create" THEN "add" ELSE "update")
                     /\ \E t \in 1..Len(landed[req[c].id.s].seq) :
                           landed[req[c].id.s].seq[t] = e.no
                     /\ ~Head(replyq).err
                     /\ e.evt["id"] = req[c].id
                     /\ e.evt["lngLat"] = loc[c].obj["lngLat"]
                     /\ e.evt["clientId"] = loc[c].obj["clientId"]
                     /\ res'[c].status \in {200, 201}]_vars

\* A create whose hSet rejected was answered 500 and an update was answered
\* 200: the one event passed is the update's.
C17_Witness ==
    /\ Len(notified) = 1
    /\ notified[1].evt["type"] = Str("update")
    /\ \E x, y \in Answered :
          /\ x.req.op = "create" /\ x.res.status = 500
          /\ y.req.op = "update" /\ y.res.status = 200
          /\ notified[1].no = y.req.no

\* The updatedAt of a stored value.
UpdatedAtOf(text) == JsonParse(text).obj["updatedAt"].n

\* C18: (Date.now() does not decrease.)  The record a handler builds carries
\* the clock's value at the moment it is built, which is the moment its hSet
\* is sent; and whenever Redis executes an hSet on an id, the updatedAt it
\* stores is at least the updatedAt of the value written to that id before
\* (overwritten, or deleted in between), whichever callers issued the two.
\* So no stored updatedAt is ahead of the clock, and the value in the hash
\* carries the greatest updatedAt written to its id so far.
C18_UpdatedAtMonotone ==
    /\ [](\A i \in DOMAIN store :
             /\ UpdatedAtOf(store[i]) <= now
             /\ UpdatedAtOf(store[i]) = landed[i].at)
    /\ [][/\ \A i \in Ids :
                (landed'[i] # landed[i] /\ landed'[i].op \in {"create", "update"}) =>
                   /\ landed'[i].at >= landed[i].at
                   /\ UpdatedAtOf(store'[i]) = landed'[i].at
          /\ \A c \in Callers :
                (loc'[c].obj # loc[c].obj /\ loc'[c].obj # EmptyObj) =>
                   /\ loc'[c].obj["updatedAt"] = Num(now)
                   /\ Len(cmdq') = Len(cmdq) + 1
                   /\ cmdq'[Len(cmdq')].value = Stringify(loc'[c].obj)]_vars

\* An update of "a" (request 1) was overtaken by a create of "a" (request 2)
\* stamped 0; the clock advanced, and the update's record, stamped 1, was
\* written over the create's.
C18_Witness ==
    /\ landed["a"].seq = <<2, 1>>
    /\ landed["a"].at = 1
    /\ "a" \in DOMAIN store
    /\ UpdatedAtOf(store["a"]) = 1
    /\ \E d \in Callers :
          /\ Done(d)
          /\ req[d].no = 2
          /\ res[d].status = 201
          /\ res[d].body["updatedAt"] = Num(0)

(***************************************************************************)
(* The socket and the timer (under SpecForwarder).                         *)
(***************************************************************************)
\* lcws holds a socket whose 'close' event has not been delivered.
HasSocket == lcws # "null"

\* C19 as claimed: with LIGHTCABLE_WS_URL set there is in every state either
\* one socket that is connecting or open and no timer, or no socket and one
\* pending timer.
C19_Original ==
    url => \/ (lcws \in {"CONNECTING", "OPEN"} /\ timers = 0)
           \/ (lcws = "null" /\ timers = 1)

\* C19, amended: with LIGHTCABLE_WS_URL set there is in every state either
\* one socket and no timer, or no socket and one pending timer; the socket is
\* connecting, open, or closing (it has reported an error, or is being closed,
\* and its 'close' event, which sets the timer, has not been delivered yet).
\* The timer is set only by the 'close' event of the one socket and a socket
\* is created only by the timer, so there are never two of either, nor one of
\* each.
C19_OneSocketOrOneTimer ==
    /\ [](url => \/ (lcws \in {"CONNECTING", "OPEN", "CLOSING"} /\ timers = 0)
                 \/ (lcws = "null" /\ timers = 1))
    /\ [][url => /\ timers' > timers => (HasSocket /\ lcws' = "null")
                 /\ (lcws' = "CONNECTING" /\ lcws # "CONNECTING") =>
                       (~HasSocket /\ timers = 1 /\ timers' = 0)]_vars

\* The socket has reported an error while open and is closing: an event passed
\* at that moment was skipped, there is no timer yet, and an event passed
\* earlier, while the socket was open, was sent.
C19_Witness ==
    /\ url
    /\ lcws = "CLOSING"
    /\ timers = 0
    /\ Len(notified) = 2
    /\ notified[1].state = "OPEN"
    /\ notified[2].state = "CLOSING"

\* The frames on the wire, and the calls of broadcastToLightcable, whose event
\* is about id i, in order.
WireOf(i) == SelectSeq(wire, LAMBDA w : JsonParse(w.text).obj["id"] = Str(i))
NotifiedOf(i) == SelectSeq(notified, LAMBDA e : e.evt["id"] = Str(i))

\* The place of request number k among the writes and deletes executed on id i.
LandingOf(i, k) == CHOOSE t \in 1..Len(landed[i].seq) : landed[i].seq[t] = k

\* C20: the events about one id are passed to broadcastToLightcable in the
\* order in which Redis executed their writes and deletes, each after its
\* execution, so the frames sent for the id are in that order too, under
\* every interleaving of the handlers; and when every call so far has sent
\* its frame and no request is in flight, there is one frame per executed
\* write or delete of the id, in order.  Hence when the frame of the last
\* write or delete executed on the id has been sent, it is the last frame of
\* the id and agrees with the hash: a remove with no value at id, or an add or
\* update whose position is the stored one.
C20_EventOrder ==
    \A i \in Ids :
       LET ws == WireOf(i)
           ns == NotifiedOf(i)
           seq == landed[i].seq
       IN /\ Len(ns) <= Len(seq)
          /\ \A t \in 1..Len(ns) : ns[t].no = seq[t]
          /\ \A j, k \in 1..Len(ws) :
                j < k => LandingOf(i, ws[j].no) < LandingOf(i, ws[k].no)
          /\ ((\A t \in 1..Len(notified) : notified[t].outcome = "sent")
                /\ cmdq = <<>> /\ replyq = <<>>) =>
                (Len(ws) = Len(seq) /\ \A t \in 1..Len(ws) : ws[t].no = seq[t])
          /\ \A j \in 1..Len(ws) : ws[j].no = landed[i].no =>
                LET e == JsonParse(ws[j].text).obj
                IN /\ j = Len(ws)
                   /\ IF e["type"] = Str("remove")
                      THEN i \notin DOMAIN store
                      ELSE /\ i \in DOMAIN store
                           /\ JsonParse(store[i]).obj["lngLat"] = e["lngLat"]
                           /\ JsonParse(store[i]).obj["clientId"] = e["clientId"]

\* An update of "a" (request 1) was overtaken by a delete of "a" (request 2)
\* while the socket was open: the remove frame was sent before the update
\* frame, and the hash holds the update's record.
C20_Witness ==
    /\ Len(wire) = 2
    /\ wire[1].no = 2
    /\ wire[2].no = 1
    /\ landed["a"].seq = <<2, 1>>
    /\ JsonParse(wire[1].text).obj["type"] = Str("remove")
    /\ JsonParse(wire[2].text).obj["type"] = Str("update")
    /\ "a" \in DOMAIN store

====
